---- MODULE Spec2Model ----
(***************************************************************************)
(* MathMate Pro: the POST /chat handler of src/main.py as a state machine. *)
(*                                                                         *)
(* A text is a sequence of one-character strings, so that str.strip() and  *)
(* str.lower() are computed character by character.  The long prompt       *)
(* literals of the source, which the handler never transforms, are         *)
(* one-element sequences holding a name for the literal.                   *)
(***************************************************************************)
EXTENDS Integers, Sequences, FiniteSets, TLC

(* ------------------------------ bounds --------------------------------- *)
\* longest client-supplied history (the handler keeps the last HISTORY_KEEP)
MaxHistory == 7
\* most images in one request (the handler forwards the first one)
MaxImages == 2

(* ------------------------- Python value helpers ------------------------ *)
\* Python's None / JSON null / a missing key: distinct from every text,
\* whose elements are single characters.
None == <<"None">>

\* `x or ""` for a text or None (main.py:453, 535)
OrEmpty(x) == IF x = None \/ x = <<>> THEN <<>> ELSE x

UpperLetters == <<"A","B","C","D","E","F","G","H","I","J","K","L","M",
                  "N","O","P","Q","R","S","T","U","V","W","X","Y","Z">>
LowerLetters == <<"a","b","c","d","e","f","g","h","i","j","k","l","m",
                  "n","o","p","q","r","s","t","u","v","w","x","y","z">>

\* str.lower() on one character
LowerChar(c) ==
    IF \E i \in 1..26 : UpperLetters[i] = c
    THEN LowerLetters[CHOOSE i \in 1..26 : UpperLetters[i] = c]
    ELSE c

\* str.lower()
lower(s) == [i \in 1..Len(s) |-> LowerChar(s[i])]

IsSpace(c) == c \in {" ", "\t", "\n", "\r"}

\* str.strip(): drop leading and trailing whitespace
strip(s) ==
    LET keep == {i \in 1..Len(s) : ~IsSpace(s[i])}
    IN  IF keep = {} THEN <<>>
        ELSE LET lo == CHOOSE i \in keep : \A j \in keep : i <= j
                 hi == CHOOSE i \in keep : \A j \in keep : j <= i
             IN  SubSeq(s, lo, hi)

(* --------------------------- configuration ----------------------------- *)
\* PASSWORD = os.getenv("MATHMATE_PASSWORD", "unlock-mathmate")
PASSWORD == <<"u","n","l","o","c","k","-","m","a","t","h","m","a","t","e">>

\* per-token rates, in units of 1e-8 USD (0.60, 0.30 and 2.40 USD per 1M)
RATE_INPUT == 60
RATE_CACHED_INPUT == 30
RATE_OUTPUT == 240

\* server-side image guard threshold, in KB
IMAGE_LIMIT_KB == 800
\* history[-6:]
HISTORY_KEEP == 6
\* images[:1]
IMAGES_KEEP == 1
\* min(600, prompt_tokens)
ASSUMED_CACHED == 600

MATHMATE_PROMPT == <<"MATHMATE_PROMPT">>
HARD_CONSTRAINT == <<"HARD_CONSTRAINT">>
VISION_GUARD == <<"VISION GUARD: An image is present. ...">>
LEVEL_APPRENTICE == <<"LEVEL=Apprentice. ...">>
LEVEL_RISING_HERO == <<"LEVEL=Rising Hero. ...">>
LEVEL_MASTER == <<"LEVEL=Master. ...">>

UNLOCK_REPLY == <<"U+1F513", " Unlocked! Pick your grade & level, then send your problem or a photo.">>
LOCK_REPLY == <<"U+1F512", " Please type the access password to begin.">>
CROP_REPLY == <<"That picture is still pretty big. Could you crop to just the problem and resend?">>
PLACEHOLDER_TEXT == <<"Please analyze the attached image problem.">>
SERVER_ERROR == <<"Server error">>

RATES == [rate_input |-> RATE_INPUT, rate_cached_input |-> RATE_CACHED_INPUT,
          rate_output |-> RATE_OUTPUT]


(* ------------------------------ inputs --------------------------------- *)
\* X-Auth header values: the password, a case variant of it, no header
XAuthInputs == {PASSWORD,
                <<"U">> \o Tail(PASSWORD),
                <<>>}

\* "message" values: missing, empty, blank, the password, a padded case
\* variant of the password, an ordinary learner text
MessageInputs == {None, <<>>, <<" ">>, PASSWORD,
                  <<" ", "U">> \o Tail(PASSWORD) \o <<" ">>,
                  <<"7">>}

\* a data URL: whether it has the "," that ends its header, and the length
\* of the base64 payload after it.  1093632 characters are 801 KB.
ImageInputs == {[comma |-> FALSE, b64len |-> 0],
                [comma |-> TRUE, b64len |-> 1093631],
                [comma |-> TRUE, b64len |-> 1093632]}

RECURSIVE SeqsUpTo(_, _)
SeqsUpTo(S, n) ==
    IF n = 0 THEN {<<>>}
    ELSE LET shorter == SeqsUpTo(S, n - 1)
         IN  shorter \cup {Append(q, x) : q \in shorter, x \in S}

\* "images": a list of data URLs, or a JSON value that cannot be sliced
\* (a number, an object)
ImagesInputs == {[list |-> TRUE, items |-> q] : q \in SeqsUpTo(ImageInputs, MaxImages)}
                \cup {[list |-> FALSE, items |-> <<>>]}

LevelInputs == {<<"A","p","p","r","e","n","t","i","c","e">>,
                <<"R","i","s","i","n","g"," ","H","e","r","o">>,
                <<" ","m","a","s","t","e","r"," ">>,
                <<"W","i","z","a","r","d">>}

GradeInputs == {<<>>, <<"7">>}

FocusInputs == {<<>>, <<"s","l","o","p","e">>}

\* the i-th entry of a client-supplied history: roles cycle through the
\* four the client may send, every third content is blank, and the content
\* names the position so that entries can be told apart
HistoryRoles == <<"system", "assistant", "user", "tool">>
HistoryEntry(i) ==
    [dict |-> TRUE,
     role |-> HistoryRoles[(i % 4) + 1],
     content |-> IF i % 3 = 0 THEN <<" ">> ELSE <<" ", "h", ToString(i)>>]

\* a history entry that is not a JSON object (a string, a number)
NotAnObject == [dict |-> FALSE, role |-> "user", content |-> <<"x">>]

\* "history": a list of {role, content} objects of every length up to
\* MaxHistory, a list holding only a non-object, a list of MaxHistory
\* entries whose first is a non-object, or a JSON value that is no list
HistoryInputs ==
    {[list |-> TRUE, items |-> [i \in 1..n |-> HistoryEntry(i)]] :
        n \in 0..MaxHistory}
    \cup {[list |-> TRUE, items |-> <<NotAnObject>>],
          [list |-> TRUE, items |-> [i \in 1..MaxHistory |->
                                        IF i = 1 THEN NotAnObject ELSE HistoryEntry(i)]],
          [list |-> FALSE, items |-> <<>>]}

\* the request bodies: a JSON object with the fields above, or a non-empty
\* JSON value that is not an object (then no field can be read)
NoFields == [message |-> None, images |-> [list |-> TRUE, items |-> <<>>],
             level |-> <<>>, grade |-> <<>>, focus |-> <<>>,
             history |-> [list |-> TRUE, items |-> <<>>]]

Requests ==
    {[json |-> "object", xauth |-> x, message |-> m, images |-> im, level |-> lv,
      grade |-> g, focus |-> f, history |-> h] :
        x \in XAuthInputs, m \in MessageInputs, im \in ImagesInputs,
        lv \in LevelInputs, g \in GradeInputs, f \in FocusInputs, h \in HistoryInputs}
    \cup {[json |-> "array", xauth |-> x, message |-> NoFields.message,
           images |-> NoFields.images, level |-> NoFields.level,
           grade |-> NoFields.grade, focus |-> NoFields.focus,
           history |-> NoFields.history] : x \in XAuthInputs}


\* what the gateway can answer: a completion object with its choices (each
\* a message content: None, empty, or a text) and its usage (None when the
\* attribute is missing)
NoUsage == [present |-> FALSE, prompt_tokens |-> 0, completion_tokens |-> 0, total_tokens |-> 0]
SomeUsage == [present |-> TRUE, prompt_tokens |-> 700, completion_tokens |-> 20, total_tokens |-> 720]

ContentInputs == {None,
                  <<>>,
                  <<"w", ".">>,
                  <<"w", "?">>,
                  <<"w", "?", " ", "w", "?">>,
                  <<"A", ")", " ", "w", " ", "B", ")", " ", "w">>}

CompletionInputs ==
    {[choices |-> <<c>>, usage |-> SomeUsage] : c \in ContentInputs}
    \cup {[choices |-> <<>>, usage |-> SomeUsage],
          [choices |-> <<<<"w", "?">>>>, usage |-> NoUsage]}

\* what the gateway can raise: the exception's type name and message
GatewayErrors == {[type |-> "APITimeoutError", msg |-> "Request timed out."],
                  [type |-> "APIConnectionError", msg |-> "Connection error."]}

(* ------------------------------- state --------------------------------- *)
VARIABLES
    DEBUG,          \* the DEBUG flag read from the environment at start
    pc,             \* "idle", "gateway" (the call is in flight), "done"
    req,            \* the request being handled
    messages,       \* the message list passed to the gateway
    gatewayCalls,   \* calls of client.chat.completions.create for req
    completion,     \* what the gateway returned or raised for req, if it did
    resp,           \* the response: HTTP status and JSON body
    trace,          \* the steps the handler has taken for req, in order
    prev            \* the previous turn if it succeeded (request, completion text, reply)

\* the page served by home(): the state of its script in one browser tab
VARIABLES
    AUTH,           \* let AUTH: the token sent as X-Auth
    unlocked,       \* the unlock row is hidden and the composer is shown
    sendDisabled,   \* sendBtn.disabled
    queuedImages,   \* let queuedImages: the data URLs waiting to be sent
    thumbs,         \* the number of thumbnails shown
    inflight,       \* the POST /chat requests awaiting their response
    resizing,       \* the calls of filesToDataURLs suspended at an await
    settled         \* how the last Send request settled

serverVars == <<DEBUG, pc, req, messages, gatewayCalls, completion, resp, trace, prev>>
clientVars == <<AUTH, unlocked, sendDisabled, queuedImages, thumbs, inflight, resizing, settled>>
vars == <<serverVars, clientVars>>

NoRequest == [json |-> "none", xauth |-> <<>>] @@ NoFields
NoError == [type |-> "", msg |-> ""]
NoCompletion == [choices |-> <<>>, usage |-> NoUsage, returned |-> FALSE, raised |-> NoError]
NoResponse == [status |-> 0, body |-> <<>>]
NoTurn == [req |-> NoRequest, raw |-> None, reply |-> None]
NotSettled == [kind |-> "none", data |-> <<>>]

(* ------------------------- chat(): before the call --------------------- *)
\* text = str(p.get("message", "") or "").strip()
text(r) == strip(OrEmpty(r.message))

\* images = (p.get("images") or [])[:1]
images(r) == SubSeq(r.images.items, 1, IF Len(r.images.items) < IMAGES_KEEP
                                       THEN Len(r.images.items) ELSE IMAGES_KEEP)

\* reading the fields raises when the body is not a JSON object
\* (p.get) or when "images" cannot be sliced
FieldsRaise(r) == r.json # "object" \/ ~r.images.list

\* AuthFails with the header compared case-insensitively
AuthFailsIgnoringCase(r) == lower(r.xauth) # lower(PASSWORD)

\* request.headers.get("X-Auth", "") != PASSWORD
AuthFails(r) == r.xauth # PASSWORD

\* text.lower() == PASSWORD.lower()
IsUnlock(r) == lower(text(r)) = lower(PASSWORD)

\* int(len(b64) * 3 / 4 / 1024), 0 when the URL has no ","
approx_kb(u) == IF u.comma THEN (u.b64len * 3) \div (4 * 1024) ELSE 0

\* TooBig looking only at the images that are forwarded
TooBigAmongKept(r) == \E i \in 1..Len(images(r)) : approx_kb(images(r)[i]) > IMAGE_LIMIT_KB

\* any(approx_kb(u) > 800 for u in (p.get("images") or []))
TooBig(r) == \E i \in 1..Len(r.images.items) : approx_kb(r.images.items[i]) > IMAGE_LIMIT_KB

\* the user content of the current turn: the text if any, the kept images,
\* the placeholder when there is neither
user_content(r) ==
    LET t == IF text(r) # <<>> THEN <<[type |-> "text", text |-> text(r)]>> ELSE <<>>
        im == [i \in 1..Len(images(r)) |-> [type |-> "image_url", url |-> images(r)[i]]]
    IN  IF t \o im = <<>> THEN <<[type |-> "text", text |-> PLACEHOLDER_TEXT]>>
        ELSE t \o im

\* lv = (level or "").lower(), level being stripped when read
lv(r) == lower(strip(r.level))

level_line(r) ==
    IF lv(r) = <<"a","p","p","r","e","n","t","i","c","e">> THEN LEVEL_APPRENTICE
    ELSE IF lv(r) = <<"r","i","s","i","n","g"," ","h","e","r","o">> THEN LEVEL_RISING_HERO
    ELSE IF lv(r) = <<"m","a","s","t","e","r">> THEN LEVEL_MASTER
    ELSE <<>>

grade_line(r) ==
    <<"GRADE=">> \o (IF strip(r.grade) = <<>> THEN <<"unknown">> ELSE strip(r.grade))
                 \o <<" for tone. ...">>

focus_line(r) ==
    <<"Focus Anchor: ">>
    \o (IF strip(r.focus) = <<>> THEN <<"(infer from latest learner content)">> ELSE strip(r.focus))
    \o <<" Stay on this focus; ...">>

vision_guard(r) == IF images(r) # <<>> THEN VISION_GUARD ELSE <<>>

\* add(msgs, role, content): append unless the content is blank
add(msgs, role, content) ==
    IF strip(OrEmpty(content)) # <<>>
    THEN Append(msgs, [role |-> role, content |-> content])
    ELSE msgs

\* history[-6:]
history_tail(h) ==
    SubSeq(h, IF Len(h) > HISTORY_KEEP THEN Len(h) - HISTORY_KEEP + 1 ELSE 1, Len(h))

\* history_role passing the client's role through
history_role_as_sent(h) == h.role

\* the role a history entry is sent with
history_role(h) == IF h.role = "assistant" THEN "assistant" ELSE "user"

\* for h in history[-6:]: ... add(messages, role, content)
RECURSIVE add_history(_, _)
add_history(msgs, hs) ==
    IF hs = <<>> THEN msgs
    ELSE LET h == Head(hs)
             content == strip(OrEmpty(h.content))
         IN  add_history(IF content # <<>> THEN add(msgs, history_role(h), content) ELSE msgs,
                         Tail(hs))

\* the loop over history raises when history is no list or an entry is no
\* object (h.get)
HistoryRaises(r) ==
    \/ ~r.history.list
    \/ \E i \in 1..Len(history_tail(r.history.items)) :
           ~history_tail(r.history.items)[i].dict

system_messages(r) ==
    add(add(add(add(add(add(<<>>, "system", MATHMATE_PROMPT),
                        "system", grade_line(r)),
                    "system", level_line(r)),
                "system", focus_line(r)),
            "system", vision_guard(r)),
        "system", HARD_CONSTRAINT)

build_messages(r) ==
    Append(add_history(system_messages(r), history_tail(r.history.items)),
           [role |-> "user", content |-> user_content(r)])


(* ------------------------- chat(): the responses ----------------------- *)
\* error_text without the DEBUG gate
error_text_ungated(e) == <<e.type, ": ", e.msg>>

\* except Exception as e: ... jsonify(error=err if DEBUG else "Server error"), 500
error_text(e) == IF DEBUG THEN <<e.type, ": ", e.msg>> ELSE SERVER_ERROR

error_response(e) == [status |-> 500, body |-> [error |-> error_text(e)]]

\* the SAFE UNLOCK block: both answers are HTTP 200 replies
locked_response(r) ==
    IF IsUnlock(r)
    THEN [status |-> 200, body |-> [reply |-> UNLOCK_REPLY, rates |-> RATES]]
    ELSE [status |-> 200, body |-> [reply |-> LOCK_REPLY]]

crop_response == [status |-> 200, body |-> [reply |-> CROP_REPLY]]

\* reply=completion.choices[0].message.content
reply_of(c) == c.choices[1]

\* the success response: the reply, the usage and the cost estimates
success_response(c) ==
    LET prompt_tokens == IF c.usage.present THEN c.usage.prompt_tokens ELSE 0
        completion_tokens == IF c.usage.present THEN c.usage.completion_tokens ELSE 0
        total_tokens == IF c.usage.present THEN c.usage.total_tokens
                        ELSE prompt_tokens + completion_tokens
        assumed_cached == IF prompt_tokens < ASSUMED_CACHED THEN prompt_tokens
                          ELSE ASSUMED_CACHED
    IN  [status |-> 200,
         body |-> [reply |-> reply_of(c),
                   usage |-> [prompt_tokens |-> prompt_tokens,
                              completion_tokens |-> completion_tokens,
                              total_tokens |-> total_tokens],
                   cost |-> [upper_bound_usd |->
                                 prompt_tokens * RATE_INPUT + completion_tokens * RATE_OUTPUT,
                             with_cache_assumed_usd |->
                                 (prompt_tokens - assumed_cached) * RATE_INPUT
                                 + assumed_cached * RATE_CACHED_INPUT
                                 + completion_tokens * RATE_OUTPUT],
                   rates |-> RATES]]

AttributeError == [type |-> "AttributeError", msg |-> "object has no attribute 'get'"]
TypeError == [type |-> "TypeError", msg |-> "object is not subscriptable"]
IndexError == [type |-> "IndexError", msg |-> "list index out of range"]

(* ------------------------------ actions -------------------------------- *)
Init ==
    /\ DEBUG \in BOOLEAN
    /\ pc = "idle"
    /\ req = NoRequest
    /\ messages = <<>>
    /\ gatewayCalls = 0
    /\ completion = NoCompletion
    /\ resp = NoResponse
    /\ trace = <<>>
    /\ prev = NoTurn
    /\ AUTH = <<>>
    /\ unlocked = FALSE
    /\ sendDisabled = FALSE
    /\ queuedImages = <<>>
    /\ thumbs = 0
    /\ inflight = <<>>
    /\ resizing = <<>>
    /\ settled = NotSettled

\* chat() from its entry to the gateway call, or to the response when it
\* returns or raises before the call
Chat(r) ==
    /\ pc = "idle"
    /\ req' = r
    /\ IF FieldsRaise(r) THEN
           /\ resp' = error_response(IF r.json # "object" THEN AttributeError ELSE TypeError)
           /\ trace' = <<"respond">>
           /\ pc' = "done"
           /\ UNCHANGED <<messages, gatewayCalls>>
       ELSE IF AuthFails(r) THEN
           /\ resp' = locked_response(r)
           /\ trace' = <<"auth", "respond">>
           /\ pc' = "done"
           /\ UNCHANGED <<messages, gatewayCalls>>
       ELSE IF TooBig(r) THEN
           /\ resp' = crop_response
           /\ trace' = <<"auth", "respond">>
           /\ pc' = "done"
           /\ UNCHANGED <<messages, gatewayCalls>>
       ELSE IF HistoryRaises(r) THEN
           /\ resp' = error_response(IF r.history.list THEN AttributeError ELSE TypeError)
           /\ trace' = <<"auth", "assemble", "respond">>
           /\ pc' = "done"
           /\ UNCHANGED <<messages, gatewayCalls>>
       ELSE
           /\ messages' = build_messages(r)
           /\ gatewayCalls' = gatewayCalls + 1
           /\ trace' = <<"auth", "assemble", "gateway">>
           /\ pc' = "gateway"
           /\ UNCHANGED resp
    /\ UNCHANGED <<DEBUG, completion, prev>>
    /\ UNCHANGED clientVars

\* client.chat.completions.create returns c: chat() builds the response,
\* and raises IndexError when there is no choice to read
GatewayReturns(c) ==
    /\ pc = "gateway"
    /\ completion' = [choices |-> c.choices, usage |-> c.usage, returned |-> TRUE,
                      raised |-> NoError]
    /\ resp' = IF c.choices = <<>> THEN error_response(IndexError)
               ELSE success_response(c)
    /\ trace' = Append(trace, "respond")
    /\ pc' = "done"
    /\ UNCHANGED <<DEBUG, req, messages, gatewayCalls, prev>>
    /\ UNCHANGED clientVars

\* GatewayRaises with one retry of the call before answering
GatewayRaisesRetrying(e) ==
    /\ pc = "gateway"
    /\ IF gatewayCalls < 2
       THEN /\ gatewayCalls' = gatewayCalls + 1
            /\ UNCHANGED <<pc, resp, trace, completion>>
       ELSE /\ completion' = [completion EXCEPT !.raised = e]
            /\ resp' = [status |-> 500, body |-> [error |-> error_text(e)]]
            /\ trace' = Append(trace, "respond")
            /\ pc' = "done"
            /\ UNCHANGED gatewayCalls
    /\ UNCHANGED <<DEBUG, req, messages, prev>>
    /\ UNCHANGED clientVars

\* client.chat.completions.create raises e: the except block answers
GatewayRaises(e) ==
    /\ pc = "gateway"
    /\ completion' = [completion EXCEPT !.raised = e]
    /\ resp' = error_response(e)
    /\ trace' = Append(trace, "respond")
    /\ pc' = "done"
    /\ UNCHANGED <<DEBUG, req, messages, gatewayCalls, prev>>
    /\ UNCHANGED clientVars

\* the response has been sent; the server waits for the next request
NextRequest ==
    /\ pc = "done"
    /\ pc' = "idle"
    /\ req' = NoRequest
    /\ messages' = <<>>
    /\ gatewayCalls' = 0
    /\ completion' = NoCompletion
    /\ resp' = NoResponse
    /\ trace' = <<>>
    /\ UNCHANGED <<DEBUG, prev>>
    /\ UNCHANGED clientVars

\* a POST /chat arrives while no request is being handled
Receive == pc = "idle" /\ \E r \in Requests : Chat(r)

\* the gateway answers the call in flight
Returns == pc = "gateway" /\ \E c \in CompletionInputs : GatewayReturns(c)

\* the gateway call in flight fails
Raises == pc = "gateway" /\ \E e \in GatewayErrors : GatewayRaises(e)

Next ==
    \/ Receive
    \/ Returns
    \/ Raises
    \/ NextRequest

Spec == Init /\ [][Next]_vars


(* --------------------- consecutive turns of a session ------------------ *)
\* the handler answered req with the completion's reply
Succeeded == pc = "done" /\ completion.returned /\ resp.status = 200

\* requests of one learner who only changes level, grade and focus
TurnRequests ==
    {[json |-> "object", xauth |-> x, message |-> <<"7">>, images |-> NoFields.images,
      level |-> l, grade |-> g, focus |-> f, history |-> NoFields.history] :
        x \in {PASSWORD, <<>>},
        l \in {<<"A","p","p","r","e","n","t","i","c","e">>, <<" ","m","a","s","t","e","r"," ">>},
        g \in GradeInputs, f \in FocusInputs}

ReceiveTurn == pc = "idle" /\ \E r \in TurnRequests : Chat(r)

\* as NextRequest, remembering the turn just answered when it succeeded
NextTurn ==
    /\ pc = "done"
    /\ prev' = IF Succeeded
               THEN [req |-> req, raw |-> reply_of(completion),
                     reply |-> resp.body.reply]
               ELSE NoTurn
    /\ pc' = "idle"
    /\ req' = NoRequest
    /\ messages' = <<>>
    /\ gatewayCalls' = 0
    /\ completion' = NoCompletion
    /\ resp' = NoResponse
    /\ trace' = <<>>
    /\ UNCHANGED DEBUG
    /\ UNCHANGED clientVars

NextTurns ==
    \/ ReceiveTurn
    \/ Returns
    \/ Raises
    \/ NextTurn

SpecTurns == Init /\ [][NextTurns]_vars


(* ------------------------------- claims -------------------------------- *)
\* the request in hand was handled past the reading of its fields
Handled == pc \in {"gateway", "done"}

\* the gateway call made for the request in hand has failed
GatewayFailed == pc = "done" /\ gatewayCalls = 1 /\ completion.raised # NoError

\* C1: a request whose X-Auth header is not the password never reaches the
\* gateway: no call is counted, none is in flight, no message list was
\* built and no completion was obtained, whatever its other fields hold.
C1_NoGatewayWithoutAuth ==
    (Handled /\ req.xauth # PASSWORD) =>
        /\ gatewayCalls = 0
        /\ pc # "gateway"
        /\ messages = <<>>
        /\ ~completion.returned

\* an unauthenticated request that carries a learner text, an image and a
\* history has been answered
C1_Witness ==
    /\ pc = "done"
    /\ req.json = "object"
    /\ req.xauth # PASSWORD
    /\ req.xauth # <<>>
    /\ req.message = <<"7">>
    /\ req.images.list /\ Len(req.images.items) > 0
    /\ Len(req.history.items) > 0
    /\ resp.status = 200

\* C2: a request whose X-Auth header differs from the password is answered
\* with status 200, a reply field and no error field; the reply is the
\* unlock greeting with the rates when the message equals the password
\* case-insensitively, and the lock prompt otherwise.
C2_AuthFailureIsAReply ==
    (pc = "done" /\ req.xauth # PASSWORD) =>
        /\ resp.status = 200
        /\ "reply" \in DOMAIN resp.body
        /\ "error" \notin DOMAIN resp.body
        /\ IF lower(strip(OrEmpty(req.message))) = lower(PASSWORD)
           THEN resp.body.reply = UNLOCK_REPLY /\ "rates" \in DOMAIN resp.body
           ELSE resp.body.reply = LOCK_REPLY

\* C3: an authenticated request with an empty or blank message and no
\* images is answered with a client error and causes no gateway call
\* (stated for requests that are otherwise well formed: the history is a
\* list of objects).
C3_EmptyInputRejected ==
    (/\ Handled
     /\ req.json = "object"
     /\ req.xauth = PASSWORD
     /\ strip(OrEmpty(req.message)) = <<>>
     /\ req.images.list /\ req.images.items = <<>>
     /\ req.history.list
     /\ \A i \in 1..Len(req.history.items) : req.history.items[i].dict) =>
        /\ gatewayCalls = 0
        /\ pc = "done"
        /\ resp.status \in 400..499

\* C4: when the gateway call fails, the response is HTTP 500 with an error
\* field and no reply field; the error is 'Server error' when DEBUG is off
\* and the exception's type and message when DEBUG is on.
C4_GatewayFailureIsAnError ==
    GatewayFailed =>
        /\ resp.status = 500
        /\ DOMAIN resp.body = {"error"}
        /\ ~DEBUG => resp.body.error = SERVER_ERROR
        /\ DEBUG => resp.body.error = <<completion.raised.type, ": ", completion.raised.msg>>

\* a gateway call timed out while DEBUG is off
C4_Witness ==
    /\ GatewayFailed
    /\ ~DEBUG
    /\ completion.raised.type = "APITimeoutError"
    /\ resp.status = 500

\* C5: a completion with no choices, or whose first choice has an empty or
\* null content, is answered with a server error and never with a success
\* response carrying that content as the reply.
C5_EmptyCompletionIsAnError ==
    (/\ pc = "done"
     /\ completion.returned
     /\ \/ completion.choices = <<>>
        \/ completion.choices[1] \in {None, <<>>}) =>
        /\ resp.status = 500
        /\ "error" \in DOMAIN resp.body
        /\ "reply" \notin DOMAIN resp.body


(* the OutputRewriter of the design, as far as the question-mark rule goes *)
CountQ(t) == Cardinality({i \in 1..Len(t) : t[i] = "?"})

\* a lettered options block: "A)", "B)", ...
HasOptionsBlock(t) ==
    \E i \in 1..(Len(t) - 1) : t[i] \in {"A", "B", "C", "D"} /\ t[i + 1] = ")"

FALLBACK_QUESTION == <<" ", "W", "h", "a", "t", " ", "n", "e", "x", "t", "?">>

\* stage 10: all question marks but the last become periods
limit_questions(t) ==
    [i \in 1..Len(t) |->
        IF t[i] = "?" /\ \E j \in (i + 1)..Len(t) : t[j] = "?" THEN "." ELSE t[i]]

\* stage 12: a text with neither a question mark nor an options block gets
\* the fallback question appended
final_fallback(t) ==
    IF CountQ(t) = 0 /\ ~HasOptionsBlock(t) THEN t \o FALLBACK_QUESTION ELSE t

rewrite(rawText, level, focus, grade, identity) ==
    final_fallback(limit_questions(OrEmpty(rawText)))

\* C6: a successful request went through auth check, message assembly,
\* gateway call, OutputRewriter and response in this order, and its reply
\* is the OutputRewriter's output for the raw completion text.
C6_ReplyIsRewritten ==
    (Succeeded /\ reply_of(completion) \notin {None, <<>>}) =>
        /\ trace = <<"auth", "assemble", "gateway", "rewrite", "respond">>
        /\ resp.body.reply = rewrite(reply_of(completion), req.level, req.focus,
                                     req.grade, req.xauth)

\* C7: the reply returned for a raw completion text holds exactly one
\* question mark, or else a lettered options block.
C7_SingleQuestion ==
    (Succeeded /\ reply_of(completion) \notin {None, <<>>}) =>
        \/ CountQ(resp.body.reply) = 1
        \/ HasOptionsBlock(resp.body.reply)

\* C8: when two consecutive successful requests have the same session key
\* (level, focus, grade and auth token; the level compared lower-cased,
\* the focus trimmed) and the gateway yields the same completion text for
\* both, the two replies differ.
C8_NoExactRepeat ==
    (/\ Succeeded
     /\ prev # NoTurn
     /\ lower(strip(prev.req.level)) = lower(strip(req.level))
     /\ strip(prev.req.focus) = strip(req.focus)
     /\ strip(prev.req.grade) = strip(req.grade)
     /\ prev.req.xauth = req.xauth
     /\ prev.raw = reply_of(completion)
     /\ reply_of(completion) \notin {None, <<>>}) =>
        resp.body.reply # prev.reply

\* the handler reaches the gateway call for the request in hand: the body
\* is a JSON object, "images" can be sliced, the X-Auth header is the
\* password, no image is estimated above 800 KB, and "history" is a list
\* whose last six entries are objects
ReachesGateway ==
    /\ req.json = "object"
    /\ req.images.list
    /\ req.xauth = PASSWORD
    /\ \A i \in 1..Len(req.images.items) :
           ~(req.images.items[i].comma
             /\ (req.images.items[i].b64len * 3) \div 4096 > 800)
    /\ req.history.list
    /\ \A i \in 1..Len(req.history.items) :
           i > Len(req.history.items) - 6 => req.history.items[i].dict

C10_MessageShape ==
    gatewayCalls = 1 =>
        LET n == Len(messages)
            k == Cardinality({i \in 1..n : messages[i].role = "system"})
            items == req.history.items
            kept == {j \in 1..Len(items) :
                        /\ j > Len(items) - 6
                        /\ strip(OrEmpty(items[j].content)) # <<>>}
            nth(i) == CHOOSE j \in kept : Cardinality({x \in kept : x <= j}) = i
            known == lower(strip(req.level)) \in
                        {<<"a","p","p","r","e","n","t","i","c","e">>,
                         <<"r","i","s","i","n","g"," ","h","e","r","o">>,
                         <<"m","a","s","t","e","r">>}
            expected == <<MATHMATE_PROMPT, grade_line(req)>>
                        \o (IF known THEN <<level_line(req)>> ELSE <<>>)
                        \o <<focus_line(req)>>
                        \o (IF req.images.items # <<>> THEN <<VISION_GUARD>> ELSE <<>>)
                        \o <<HARD_CONSTRAINT>>
        IN  /\ n >= 1
            /\ \A i \in 1..k : messages[i].role = "system"
            /\ [i \in 1..k |-> messages[i].content] = expected
            /\ \A i \in 1..k : messages[i].content # <<>>
            /\ n - 1 - k = Cardinality(kept)
            /\ n - 1 - k <= 6
            /\ \A i \in 1..(n - 1 - k) :
                   /\ messages[k + i].role \in {"assistant", "user"}
                   /\ messages[k + i].role = "assistant" <=> items[nth(i)].role = "assistant"
                   /\ messages[k + i].content = strip(items[nth(i)].content)
                   /\ messages[k + i].content # <<>>
            /\ messages[n].role = "user"
            /\ messages[n].content = user_content(req)
            /\ \A j \in 1..Len(messages[n].content) :
                   messages[n].content[j].type \in {"text", "image_url"}

\* a call is in flight for a request with a known level, an image, and a
\* history longer than 6 that holds an entry sent with role 'system'
C10_Witness ==
    /\ pc = "gateway"
    /\ Len(req.history.items) > 6
    /\ \E i \in 1..Len(req.history.items) :
           /\ i > Len(req.history.items) - 6
           /\ req.history.items[i].role = "system"
           /\ strip(req.history.items[i].content) # <<>>
    /\ req.images.items # <<>>
    /\ level_line(req) = LEVEL_MASTER
    /\ Len(messages) > 7


(* ----------------------------- image guard ----------------------------- *)
\* the request in hand holds an image whose estimated size is above 800 KB
\* (its base64 payload is 3/4 of that many bytes)
HasOversizedImage ==
    /\ req.json = "object"
    /\ req.images.list
    /\ \E i \in 1..Len(req.images.items) :
           /\ req.images.items[i].comma
           /\ (req.images.items[i].b64len * 3) \div 4096 > 800

\* the image parts of the current turn's message in the gateway call
ForwardedImages ==
    LET content == messages[Len(messages)].content
    IN  [j \in {i \in 1..Len(content) : content[i].type = "image_url"} |-> content[j].url]

\* every gateway call carries at most one image, the first of the request,
\* and is made only when no submitted image is estimated above 800 KB
GuardedCall ==
    gatewayCalls > 0 =>
        /\ Cardinality(DOMAIN ForwardedImages) <= 1
        /\ \A j \in DOMAIN ForwardedImages : ForwardedImages[j] = req.images.items[1]
        /\ Cardinality(DOMAIN ForwardedImages) = 1 <=> req.images.items # <<>>
        /\ ~HasOversizedImage

\* C13 as stated: GuardedCall, and every request holding an oversized image
\* is answered with the crop-and-resend reply at HTTP 200 without a
\* gateway call.
C13_OversizedAlwaysCropReply ==
    /\ GuardedCall
    /\ (pc = "done" /\ HasOversizedImage) =>
           /\ resp = [status |-> 200, body |-> [reply |-> CROP_REPLY]]
           /\ gatewayCalls = 0

\* C13, amended: GuardedCall, and every request holding an oversized image
\* causes no gateway call; it is answered with the crop-and-resend reply at
\* HTTP 200 when its X-Auth header is the password, and as any other
\* unauthenticated request (unlock greeting or lock prompt) when it is not.
C13_ImageGuard ==
    /\ GuardedCall
    /\ (pc = "done" /\ HasOversizedImage) =>
           /\ gatewayCalls = 0
           /\ resp.status = 200
           /\ resp.body.reply = IF req.xauth = PASSWORD THEN CROP_REPLY
                                ELSE IF lower(strip(OrEmpty(req.message))) = lower(PASSWORD)
                                     THEN UNLOCK_REPLY
                                     ELSE LOCK_REPLY

\* an authenticated request whose first image is small and whose second is
\* oversized got the crop-and-resend reply
C13_Witness ==
    /\ pc = "done"
    /\ req.xauth = PASSWORD
    /\ Len(req.images.items) = 2
    /\ (req.images.items[1].b64len * 3) \div 4096 <= 800
    /\ (req.images.items[2].b64len * 3) \div 4096 > 800
    /\ req.images.items[2].comma
    /\ resp.body.reply = CROP_REPLY
    /\ gatewayCalls = 0


(* ------------------------- the page's script --------------------------- *)
\* at most this many handlers of the page are suspended at an await at once
\* (requests awaited by post and suspended calls of filesToDataURLs)
MaxAwaits == 2
\* most files in one file-picker, drop or paste event
MaxFiles == 2

\* const HARD_LIMIT_KB, STRICT_BLOCK, ONE_IMAGE_PER_TURN
HARD_LIMIT_KB == 450
STRICT_BLOCK == TRUE
ONE_IMAGE_PER_TURN == TRUE

\* the selected options of the level and grade selects; FOCUS and HIST are
\* sent as the empty focus and the empty list: the page only ever sends a
\* text and a list of {role, content} objects there, which never decide
\* how chat() answers
LEVEL == <<"A","p","p","r","e","n","t","i","c","e">>
GRADE == <<"6">>
FOCUS == <<>>
HIST == [list |-> TRUE, items |-> <<>>]

\* what the learner types into the password box
PasswordInputs == {PASSWORD,
                   <<" ", "U">> \o Tail(PASSWORD),
                   <<"x">>,
                   <<" ">>}

\* what the learner types into the message box
TextInputs == {<<>>, <<"7">>}

\* a file of an event: whether its type is image/*, the base64 length of
\* the data URL that shrinkAndMaybeBlock ends with (-1 when resizing
\* throws), and the base64 length of the file read as it is.  614400
\* characters are 450.0 KB, 614500 are 450.1 KB.
FileInputs == {[image |-> FALSE, resized |-> 0, original |-> 2000],
               [image |-> TRUE, resized |-> 614400, original |-> 2000000],
               [image |-> TRUE, resized |-> 614500, original |-> 2000000],
               [image |-> TRUE, resized |-> -1, original |-> 1093632]}

FileLists == SeqsUpTo(FileInputs, MaxFiles) \ {<<>>}

\* what the gateway does for a request of the page
ClientGatewayOutcomes ==
    {[raises |-> FALSE, completion |-> [choices |-> <<<<"w", "?">>>>, usage |-> SomeUsage],
      error |-> NoError],
     [raises |-> FALSE, completion |-> [choices |-> <<>>, usage |-> SomeUsage],
      error |-> NoError],
     [raises |-> TRUE, completion |-> [choices |-> <<>>, usage |-> NoUsage],
      error |-> [type |-> "APITimeoutError", msg |-> "Request timed out."]]}

\* chat() as a whole: the response to request r when the gateway, if it
\* is called, does g
chat_result(r, g) ==
    IF FieldsRaise(r)
    THEN error_response(IF r.json # "object" THEN AttributeError ELSE TypeError)
    ELSE IF AuthFails(r) THEN locked_response(r)
    ELSE IF TooBig(r) THEN crop_response
    ELSE IF HistoryRaises(r)
    THEN error_response(IF r.history.list THEN AttributeError ELSE TypeError)
    ELSE IF g.raises THEN error_response(g.error)
    ELSE IF g.completion.choices = <<>> THEN error_response(IndexError)
    ELSE success_response(g.completion)

\* how awaiting post() for request r can end: r.json() gives the body of
\* the server's response, fetch rejects, or the body is no JSON
HttpOutcomes(r) ==
    {[kind |-> "json", data |-> chat_result(r, g).body] : g \in ClientGatewayOutcomes}
    \cup {[kind |-> "network", data |-> <<>>], [kind |-> "unparsable", data |-> <<>>]}

\* post(payload): the request that fetch sends
post(message, imgs) ==
    [json |-> "object", xauth |-> AUTH, message |-> message,
     images |-> [list |-> TRUE, items |-> imgs],
     level |-> LEVEL, grade |-> GRADE, focus |-> FOCUS, history |-> HIST]

Remove(q, i) == SubSeq(q, 1, i - 1) \o SubSeq(q, i + 1, Len(q))

\* (data.reply||'').startsWith(the open-lock sign)
StartsWithUnlock(data) ==
    /\ "reply" \in DOMAIN data
    /\ data.reply # None
    /\ data.reply # <<>>
    /\ Head(data.reply) = Head(UNLOCK_REPLY)

\* unlockBtn.onclick up to `await post`: nothing is disabled meanwhile
unlockBtn_onclick(v) ==
    /\ ~unlocked
    /\ Len(inflight) + Len(resizing) < MaxAwaits
    /\ LET pw == strip(v)
       IN  IF pw = <<>> THEN UNCHANGED inflight
           ELSE inflight' = Append(inflight,
                                   [origin |-> "unlock", pw |-> pw, req |-> post(pw, <<>>)])
    /\ UNCHANGED <<AUTH, unlocked, sendDisabled, queuedImages, thumbs, resizing, settled>>
    /\ UNCHANGED serverVars

\* unlockBtn.onclick after `await post`: on the unlock greeting the typed
\* password becomes AUTH and the composer is shown; when post() rejects
\* the handler ends there
unlockBtn_resume(i, o) ==
    /\ inflight[i].origin = "unlock"
    /\ inflight' = Remove(inflight, i)
    /\ IF o.kind = "json" /\ StartsWithUnlock(o.data)
       THEN AUTH' = inflight[i].pw /\ unlocked' = TRUE
       ELSE UNCHANGED <<AUTH, unlocked>>
    /\ UNCHANGED <<sendDisabled, queuedImages, thumbs, resizing, settled>>
    /\ UNCHANGED serverVars

\* sendBtn.onclick up to `await post` (also reached by Enter in the message
\* box, through sendBtn.click(), which does nothing on a disabled button)
sendBtn_onclick(t) ==
    /\ unlocked
    /\ ~sendDisabled
    /\ Len(inflight) + Len(resizing) < MaxAwaits
    /\ LET txt == strip(t)
       IN  IF txt = <<>> /\ queuedImages = <<>>
           THEN UNCHANGED <<sendDisabled, inflight>>
           ELSE /\ sendDisabled' = TRUE
                /\ inflight' = Append(inflight,
                                      [origin |-> "send", pw |-> <<>>,
                                       req |-> post(txt, queuedImages)])
    /\ UNCHANGED <<AUTH, unlocked, queuedImages, thumbs, resizing, settled>>
    /\ UNCHANGED serverVars

\* sendBtn_resume whose cleanup only runs after a parsed response
sendBtn_resume_without_finally(i, o) ==
    /\ inflight[i].origin = "send"
    /\ inflight' = Remove(inflight, i)
    /\ settled' = o
    /\ IF o.kind = "json"
       THEN sendDisabled' = FALSE /\ queuedImages' = <<>> /\ thumbs' = 0
       ELSE UNCHANGED <<sendDisabled, queuedImages, thumbs>>
    /\ UNCHANGED <<AUTH, unlocked, resizing>>
    /\ UNCHANGED serverVars

\* sendBtn.onclick after `await post`: the bubble for the reply or error,
\* then the finally block, which also runs when post() rejects
sendBtn_resume(i, o) ==
    /\ inflight[i].origin = "send"
    /\ inflight' = Remove(inflight, i)
    /\ settled' = o
    /\ sendDisabled' = FALSE
    /\ queuedImages' = <<>>
    /\ thumbs' = 0
    /\ UNCHANGED <<AUTH, unlocked, resizing>>
    /\ UNCHANGED serverVars

\* approxKBFromDataURL, in tenths of a KB: Math.round(bytes / 102.4)
approxKBFromDataURL(b64len) == (((b64len * 3) \div 4) * 10 + 512) \div 1024

\* the files from the first one whose type is image/*
RECURSIVE skip_non_images(_)
skip_non_images(fs) ==
    IF fs = <<>> THEN <<>>
    ELSE IF Head(fs).image THEN fs
    ELSE skip_non_images(Tail(fs))

\* whether shrinkAndMaybeBlock returns null for file f (STRICT_BLOCK and
\* the shrunk image still above HARD_LIMIT_KB)
blocked(f) ==
    /\ f.resized >= 0
    /\ STRICT_BLOCK
    /\ approxKBFromDataURL(f.resized) > HARD_LIMIT_KB * 10

\* the files of fs that the loop can still reach: the images (a file of
\* another type is skipped by `continue`), up to the first one that is
\* pushed, after which the one-image check of the next iteration breaks
\* the loop before anything else runs
RECURSIVE files_reached(_)
files_reached(fs) ==
    LET rest == skip_non_images(fs)
    IN  IF rest = <<>> THEN <<>>
        ELSE IF ONE_IMAGE_PER_TURN /\ ~blocked(Head(rest)) THEN <<Head(rest)>>
        ELSE <<Head(rest)>> \o files_reached(Tail(rest))

\* the loop of filesToDataURLs run from files fs with queue q up to its
\* next await: the files left, the first of them being shrunk, or <<>>
\* when the loop ends (no image left, or the one-image check breaks)
loop_until_await(fs, q) ==
    IF ONE_IMAGE_PER_TURN /\ Len(q) >= 1 THEN <<>> ELSE files_reached(fs)

\* filesToDataURLs(files) up to its first await (file picker, drop, paste)
filesToDataURLs(files) ==
    /\ unlocked
    /\ Len(inflight) + Len(resizing) < MaxAwaits
    /\ LET rest == loop_until_await(files, queuedImages)
       IN  resizing' = IF rest = <<>> THEN resizing
                       ELSE Append(resizing, [files |-> rest, stage |-> "shrink"])
    /\ UNCHANGED <<AUTH, unlocked, sendDisabled, queuedImages, thumbs, inflight, settled>>
    /\ UNCHANGED serverVars

\* filesToDataURLs after an await: the shrunk image is pushed unless it is
\* still above HARD_LIMIT_KB; when shrinking threw, the file is read as it
\* is (a second await) and pushed; then the loop goes on
filesToDataURLs_resume(i) ==
    LET t == resizing[i]
        f == Head(t.files)
        go_on(q) == LET rest == loop_until_await(Tail(t.files), q)
                    IN  IF rest = <<>> THEN Remove(resizing, i)
                        ELSE [resizing EXCEPT ![i] = [files |-> rest, stage |-> "shrink"]]
        push(url) == /\ queuedImages' = Append(queuedImages, url)
                     /\ thumbs' = thumbs + 1
                     /\ resizing' = go_on(Append(queuedImages, url))
    IN  /\ IF t.stage = "shrink" /\ f.resized < 0
           THEN /\ resizing' = [resizing EXCEPT ![i].stage = "read"]
                /\ UNCHANGED <<queuedImages, thumbs>>
           ELSE IF t.stage = "read"
           THEN push([comma |-> TRUE, b64len |-> f.original])
           ELSE IF blocked(f)
           THEN /\ resizing' = go_on(queuedImages)
                /\ UNCHANGED <<queuedImages, thumbs>>
           ELSE push([comma |-> TRUE, b64len |-> f.resized])
        /\ UNCHANGED <<AUTH, unlocked, sendDisabled, inflight, settled>>
        /\ UNCHANGED serverVars

\* the learner clicks Unlock, or presses Enter in the password box
ClickUnlock == ~unlocked /\ \E v \in PasswordInputs : unlockBtn_onclick(v)

\* the learner clicks Send, or presses Enter in the message box
ClickSend == unlocked /\ ~sendDisabled /\ \E t \in TextInputs : sendBtn_onclick(t)

\* the learner picks, drops or pastes files
AddFiles == unlocked /\ \E fs \in FileLists : filesToDataURLs(fs)

\* an awaited unlock request settles
UnlockSettles ==
    \E i \in 1..Len(inflight) :
        /\ inflight[i].origin = "unlock"
        /\ \E o \in HttpOutcomes(inflight[i].req) : unlockBtn_resume(i, o)

\* an awaited send request settles
SendSettles ==
    \E i \in 1..Len(inflight) :
        /\ inflight[i].origin = "send"
        /\ \E o \in HttpOutcomes(inflight[i].req) : sendBtn_resume(i, o)

\* an awaited resize or file read completes
ResizeSettles == \E i \in 1..Len(resizing) : filesToDataURLs_resume(i)

NextClient ==
    \/ ClickUnlock
    \/ ClickSend
    \/ AddFiles
    \/ UnlockSettles
    \/ SendSettles
    \/ ResizeSettles

SpecClient == Init /\ [][NextClient]_vars


(* ------------------------ claims about the page ------------------------ *)
\* C11: at no time are two POST /chat requests of the page in flight
\* together, whichever control started them.  unlockBtn.onclick disables
\* nothing while it awaits post, so a second Unlock click dispatches a
\* second request.
C11_OneRequestInFlight == Len(inflight) <= 1

\* C12: once the page is unlocked, a request it sends with AUTH in X-Auth
\* is never answered with the lock prompt.  The unlock compare ignores
\* letter case and the auth check does not, so a password typed in another
\* case unlocks the page and then fails every auth check.
C12_UnlockedTokenPasses ==
    (settled.kind = "json" /\ "reply" \in DOMAIN settled.data)
        => settled.data.reply # LOCK_REPLY

\* C14: queuedImages never holds more than one image.  Two calls of
\* filesToDataURLs that both pass the length check before either resize
\* completes both push.
C14_OneQueuedImage == Len(queuedImages) <= 1

\* a request dispatched by Send is awaited
SendPending == \E i \in 1..Len(inflight) : inflight[i].origin = "send"

\* C15: the Send button is disabled exactly while a request dispatched by
\* Send is pending, and the step in which that request settles (JSON reply,
\* error reply, network failure or unparsable body) leaves the button
\* enabled and the image queue and thumbnails empty.
C15_SendRecovers ==
    [][/\ sendDisabled' <=> SendPending'
       /\ (SendPending /\ ~SendPending') =>
              (~sendDisabled' /\ queuedImages' = <<>> /\ thumbs' = 0)]_vars

\* a send failed in the network and the button is enabled again, the
\* queue and the thumbnails empty
C15_Witness ==
    /\ settled.kind = "network"
    /\ ~SendPending
    /\ ~sendDisabled
    /\ queuedImages = <<>>
    /\ thumbs = 0

====
